---- MODULE Spec2Model ----
(***************************************************************************)
(* Model of goltsov.vadim/P5/main.cpp: the Shape hierarchy (Rectangle,     *)
(* Rubber, Polygon), scaleRelativePoint, totalPrint, the Polygon special   *)
(* member functions and the driver's input loop.                           *)
(*                                                                         *)
(* A C++ double is modelled by an exact rational <<num, den>> (den > 0,    *)
(* lowest terms), so every identity below is an identity of real           *)
(* arithmetic: rounding, overflow to infinity and NaN are outside the      *)
(* model.  Polygons of zero signed area (whose centroid is a division by   *)
(* zero) are therefore not among the modelled inputs.                      *)
(***************************************************************************)
EXTENDS Integers, Sequences, FiniteSets, TLC

VARIABLES shape, prev, op, steps,
          mas2, outp, pc,
          input, cin, f, rc,
          heap, objs, last, ub

shapeVars == <<shape, prev, op, steps>>
drvVars   == <<mas2, outp, pc, input, cin, f, rc>>
polyVars  == <<heap, objs, last, ub>>
vars      == <<shape, prev, op, steps, mas2, outp, pc, input, cin, f, rc, heap, objs, last, ub>>

(***************************************************************************)
(* double arithmetic, exact                                                *)
(***************************************************************************)
Abs(n) == IF n < 0 THEN -n ELSE n

RECURSIVE GCD(_, _)
GCD(a, b) == IF b = 0 THEN a ELSE GCD(b, a % b)

Norm(n, d) ==
  LET g == GCD(Abs(n), Abs(d))
      s == IF d < 0 THEN -1 ELSE 1
  IN  <<(s * n) \div g, (s * d) \div g>>

R(n) == <<n, 1>>
Q(n, d) == Norm(n, d)

RAdd(a, b) ==
  LET g == GCD(a[2], b[2])
  IN  Norm(a[1] * (b[2] \div g) + b[1] * (a[2] \div g), (a[2] \div g) * b[2])
RNeg(a) == <<-a[1], a[2]>>
RSub(a, b) == RAdd(a, RNeg(b))
RMul(a, b) ==
  LET g1 == GCD(Abs(a[1]), b[2])
      g2 == GCD(Abs(b[1]), a[2])
  IN  Norm((a[1] \div g1) * (b[1] \div g2), (a[2] \div g2) * (b[2] \div g1))
\* a / b for b # 0
RDiv(a, b) == RMul(a, Norm(b[2], b[1]))
RLt(a, b) ==
  LET g == GCD(a[2], b[2])
  IN  a[1] * (b[2] \div g) < b[1] * (a[2] \div g)
RLe(a, b) == a = b \/ RLt(a, b)
RAbs(a) == <<Abs(a[1]), a[2]>>
Zero == R(0)
Two == R(2)

\* PI = std::acos(-1.0), kept as a positive rational close to it
PI == Q(355, 113)

point_t(x, y) == [x |-> x, y |-> y]
rectangle_t(w, h, p) == [width |-> w, height |-> h, pos |-> p]

\* sqrt(d2) + r2 > r1 decided without the root: the root of d2 >= 0 exceeds
\* r1 - r2 exactly when r1 - r2 < 0 or d2 > (r1 - r2)^2
SqrtPlusGt(d2, r2, r1) ==
  LET e == RSub(r1, r2)
  IN  RLt(e, Zero) \/ RLt(RMul(e, e), d2)

(***************************************************************************)
(* Rectangle                                                               *)
(***************************************************************************)
Rectangle_throws(width, height) == RLe(width, Zero) \/ RLe(height, Zero)
Rectangle(width, height, pos) ==
  [kind |-> "Rectangle", a |-> rectangle_t(width, height, pos)]

Rectangle_getArea(s) == RMul(s.a.width, s.a.height)
Rectangle_getFrameRect(s) == s.a
Rectangle_moveTo(s, newPos) == [s EXCEPT !.a.pos = newPos]
Rectangle_moveBy(s, dx, dy) ==
  [s EXCEPT !.a.pos = point_t(RAdd(s.a.pos.x, dx), RAdd(s.a.pos.y, dy))]
Rectangle_scale_NoCheck(s, k) ==
  [s |-> [s EXCEPT !.a.height = RMul(s.a.height, k), !.a.width = RMul(s.a.width, k)],
   thrown |-> RLe(k, Zero)]
Rectangle_scale(s, k) ==
  IF RLe(k, Zero)
  THEN [s |-> s, thrown |-> TRUE]
  ELSE [s |-> [s EXCEPT !.a.height = RMul(s.a.height, k), !.a.width = RMul(s.a.width, k)],
        thrown |-> FALSE]

(***************************************************************************)
(* Rubber                                                                  *)
(***************************************************************************)
Rubber_throws(r1, pos1, r2, pos2) ==
  LET ex == RSub(pos1.x, pos2.x)
      ey == RSub(pos1.y, pos2.y)
  IN  \/ RLe(r1, Zero) \/ RLe(r2, Zero)
      \/ (pos1.x = pos2.x /\ pos1.y = pos2.y)
      \/ SqrtPlusGt(RAdd(RMul(ex, ex), RMul(ey, ey)), r2, r1)
Rubber(r1, pos1, r2, pos2) ==
  [kind |-> "Rubber", r1 |-> r1, r2 |-> r2, pos1 |-> pos1, pos2 |-> pos2]

Rubber_getArea(s) == RMul(PI, RSub(RMul(s.r1, s.r1), RMul(s.r2, s.r2)))
Rubber_getFrameRect(s) == rectangle_t(RMul(s.r1, Two), RMul(s.r1, Two), s.pos1)
Rubber_moveTo_Outer(s, newPos) ==
  LET dx == RSub(s.pos1.x, s.pos2.x)
      dy == RSub(s.pos1.y, s.pos2.y)
  IN  [s EXCEPT !.pos1 = newPos,
                !.pos2 = point_t(RSub(newPos.x, dx), RSub(newPos.y, dy))]
Rubber_moveTo(s, newPos) ==
  LET dx == RSub(s.pos1.x, s.pos2.x)
      dy == RSub(s.pos1.y, s.pos2.y)
  IN  [s EXCEPT !.pos2 = newPos,
                !.pos1 = point_t(RAdd(newPos.x, dx), RAdd(newPos.y, dy))]
Rubber_moveBy(s, dx, dy) ==
  [s EXCEPT !.pos1 = point_t(RAdd(s.pos1.x, dx), RAdd(s.pos1.y, dy)),
            !.pos2 = point_t(RAdd(s.pos2.x, dx), RAdd(s.pos2.y, dy))]
Rubber_scale_RadiiOnly(s, k) ==
  IF RLe(k, Zero)
  THEN [s |-> s, thrown |-> TRUE]
  ELSE [s |-> [s EXCEPT !.r1 = RMul(s.r1, k), !.r2 = RMul(s.r2, k)], thrown |-> FALSE]
Rubber_scale(s, k) ==
  IF RLe(k, Zero)
  THEN [s |-> s, thrown |-> TRUE]
  ELSE LET dx == RSub(s.pos1.x, s.pos2.x)
           dy == RSub(s.pos1.y, s.pos2.y)
       IN  [s |-> [s EXCEPT !.r1 = RMul(s.r1, k),
                            !.r2 = RMul(s.r2, k),
                            !.pos1 = point_t(RAdd(s.pos2.x, RMul(k, dx)),
                                             RAdd(s.pos2.y, RMul(k, dy)))],
            thrown |-> FALSE]

(***************************************************************************)
(* Polygon                                                                 *)
(***************************************************************************)
\* sum over i = from..n of term[i]
RECURSIVE RSum(_, _, _)
RSum(term, from, n) ==
  IF from > n THEN Zero ELSE RAdd(term[from], RSum(term, from + 1, n))

\* mtx[i].x * mtx[j].y - mtx[j].x * mtx[i].y with j = (i + 1) % n, 1-based here
Cross(mtx, n, i) ==
  LET j == (i % n) + 1
  IN  RSub(RMul(mtx[i].x, mtx[j].y), RMul(mtx[j].x, mtx[i].y))

ShoelaceSum(mtx, n) == RSum([i \in 1..n |-> Cross(mtx, n, i)], 1, n)

polygonCentroid(mtx, n) ==
  IF n < 3
  THEN IF n > 0
       THEN point_t(RDiv(RSum([i \in 1..n |-> mtx[i].x], 1, n), R(n)),
                    RDiv(RSum([i \in 1..n |-> mtx[i].y], 1, n), R(n)))
       ELSE point_t(Zero, Zero)
  ELSE LET area == RMul(ShoelaceSum(mtx, n), Q(1, 2))
           centroid_x == RSum([i \in 1..n |->
                               RMul(RAdd(mtx[i].x, mtx[(i % n) + 1].x), Cross(mtx, n, i))], 1, n)
           centroid_y == RSum([i \in 1..n |->
                               RMul(RAdd(mtx[i].y, mtx[(i % n) + 1].y), Cross(mtx, n, i))], 1, n)
           factor == RDiv(R(1), RMul(R(6), area))
       IN  point_t(RMul(centroid_x, factor), RMul(centroid_y, factor))

Polygon_throws(mtx0, n0) == n0 < 3
Polygon(mtx0, n0) ==
  [kind |-> "Polygon", mtx |-> mtx0, n |-> n0, pos |-> polygonCentroid(mtx0, n0)]

Polygon_getArea_NoHalf(s) ==
  IF s.n < 3 THEN Zero ELSE RAbs(ShoelaceSum(s.mtx, s.n))
Polygon_getArea(s) ==
  IF s.n < 3 THEN Zero ELSE RMul(RAbs(ShoelaceSum(s.mtx, s.n)), Q(1, 2))

RECURSIVE RMax(_, _, _)
RMax(v, i, n) ==
  IF i > n THEN v[1]
  ELSE LET m == RMax(v, i + 1, n) IN IF RLt(m, v[i]) THEN v[i] ELSE m
RECURSIVE RMin(_, _, _)
RMin(v, i, n) ==
  IF i > n THEN v[1]
  ELSE LET m == RMin(v, i + 1, n) IN IF RLt(v[i], m) THEN v[i] ELSE m

Polygon_getFrameRect(s) ==
  LET xs == [i \in 1..s.n |-> s.mtx[i].x]
      ys == [i \in 1..s.n |-> s.mtx[i].y]
      max_x == RMax(xs, 1, s.n)
      min_x == RMin(xs, 1, s.n)
      max_y == RMax(ys, 1, s.n)
      min_y == RMin(ys, 1, s.n)
  IN  rectangle_t(RSub(max_x, min_x), RSub(max_y, min_y),
                  point_t(RDiv(RAdd(max_x, min_x), Two), RDiv(RAdd(max_y, min_y), Two)))
Polygon_moveBy(s, dx, dy) ==
  [s EXCEPT !.mtx = [i \in 1..s.n |-> point_t(RAdd(s.mtx[i].x, dx), RAdd(s.mtx[i].y, dy))],
            !.pos = point_t(RAdd(s.pos.x, dx), RAdd(s.pos.y, dy))]
Polygon_moveTo(s, newPos) ==
  LET dx == RSub(newPos.x, s.pos.x)
      dy == RSub(newPos.y, s.pos.y)
  IN  [s EXCEPT !.mtx = [i \in 1..s.n |-> point_t(RAdd(s.mtx[i].x, dx), RAdd(s.mtx[i].y, dy))],
                !.pos = newPos]
Polygon_scale_XOnly(s, k) ==
  IF RLe(k, Zero)
  THEN [s |-> s, thrown |-> TRUE]
  ELSE [s |-> [s EXCEPT !.mtx = [i \in 1..s.n |->
                 point_t(RAdd(s.pos.x, RMul(RSub(s.mtx[i].x, s.pos.x), k)), s.mtx[i].y)]],
        thrown |-> FALSE]
Polygon_scale(s, k) ==
  IF RLe(k, Zero)
  THEN [s |-> s, thrown |-> TRUE]
  ELSE [s |-> [s EXCEPT !.mtx = [i \in 1..s.n |->
                 point_t(RAdd(s.pos.x, RMul(RSub(s.mtx[i].x, s.pos.x), k)),
                         RAdd(s.pos.y, RMul(RSub(s.mtx[i].y, s.pos.y), k)))]],
        thrown |-> FALSE]

(***************************************************************************)
(* Shape: virtual dispatch                                                 *)
(***************************************************************************)
getArea(s) ==
  CASE s.kind = "Rectangle" -> Rectangle_getArea(s)
    [] s.kind = "Rubber"    -> Rubber_getArea(s)
    [] s.kind = "Polygon"   -> Polygon_getArea(s)
getFrameRect(s) ==
  CASE s.kind = "Rectangle" -> Rectangle_getFrameRect(s)
    [] s.kind = "Rubber"    -> Rubber_getFrameRect(s)
    [] s.kind = "Polygon"   -> Polygon_getFrameRect(s)
moveTo(s, p) ==
  CASE s.kind = "Rectangle" -> Rectangle_moveTo(s, p)
    [] s.kind = "Rubber"    -> Rubber_moveTo(s, p)
    [] s.kind = "Polygon"   -> Polygon_moveTo(s, p)
moveBy(s, dx, dy) ==
  CASE s.kind = "Rectangle" -> Rectangle_moveBy(s, dx, dy)
    [] s.kind = "Rubber"    -> Rubber_moveBy(s, dx, dy)
    [] s.kind = "Polygon"   -> Polygon_moveBy(s, dx, dy)
scale(s, k) ==
  CASE s.kind = "Rectangle" -> Rectangle_scale(s, k)
    [] s.kind = "Rubber"    -> Rubber_scale(s, k)
    [] s.kind = "Polygon"   -> Polygon_scale(s, k)

\* the exception of a->scale(k) leaves the function after a->move(p)
scaleRelativePoint(a, p, k) ==
  LET p1 == getFrameRect(a).pos
      moved == moveTo(a, p)
      scaled == scale(moved, k)
  IN  IF scaled.thrown
      THEN [s |-> moved, thrown |-> TRUE]
      ELSE LET p2 == getFrameRect(scaled.s).pos
               dx == RMul(RSub(p1.x, p2.x), k)
               dy == RMul(RSub(p1.y, p2.y), k)
           IN  [s |-> moveBy(scaled.s, dx, dy), thrown |-> FALSE]

(***************************************************************************)
(* Spec: one shape object and the operations of the Shape interface        *)
(***************************************************************************)
MaxOps == 2

\* arguments of move(point_t), move(dx, dy), scale(k) and scaleRelativePoint
Points == {point_t(R(0), R(0)), point_t(R(1), R(2)), point_t(R(-1), R(1))}
Deltas == {point_t(R(1), R(0)), point_t(R(-2), R(3))}
Factors == {R(-1), R(0), Q(1, 2), R(2)}

\* mas of main
mas == <<point_t(R(0), R(0)), point_t(R(1), R(0)), point_t(R(2), R(2)),
         point_t(R(2), R(3)), point_t(R(1), R(4))>>

\* constructor arguments, the driver's first; some are rejected
RectangleArgs ==
  { <<R(1), R(5), point_t(R(2), R(3))>>,
    <<R(2), R(2), point_t(R(0), R(0))>>,
    <<R(0), R(1), point_t(R(0), R(0))>>,
    <<R(1), R(-1), point_t(R(0), R(0))>> }
RubberArgs ==
  { <<Q(22, 5), point_t(R(1), R(1)), Q(11, 10), point_t(Q(11, 10), Q(11, 10))>>,
    <<R(2), point_t(R(1), R(0)), R(1), point_t(R(0), R(0))>>,
    <<R(3), point_t(R(0), R(1)), R(1), point_t(R(1), R(2))>>,
    <<R(2), point_t(R(0), R(0)), R(1), point_t(R(0), R(0))>>,
    <<R(2), point_t(R(2), R(0)), R(1), point_t(R(0), R(0))>>,
    <<R(1), point_t(R(1), R(0)), R(2), point_t(R(0), R(0))>>,
    <<R(0), point_t(R(1), R(0)), R(1), point_t(R(0), R(0))>> }
PolygonArgs ==
  { <<mas, 5>>,
    <<<<point_t(R(0), R(0)), point_t(R(2), R(0)), point_t(R(0), R(2))>>, 3>>,
    <<<<point_t(R(0), R(0)), point_t(R(0), R(3)), point_t(R(1), R(0))>>, 3>>,
    <<<<point_t(R(0), R(0)), point_t(R(2), R(0)), point_t(R(2), R(2)), point_t(R(0), R(2))>>, 4>>,
    <<<<point_t(R(0), R(0)), point_t(R(2), R(0))>>, 2>> }

\* the objects whose constructor returns
Shapes ==
  { Rectangle(c[1], c[2], c[3]) : c \in {d \in RectangleArgs : ~Rectangle_throws(d[1], d[2])} }
  \cup { Rubber(c[1], c[2], c[3], c[4]) :
           c \in {d \in RubberArgs : ~Rubber_throws(d[1], d[2], d[3], d[4])} }
  \cup { Polygon(c[1], c[2]) : c \in {d \in PolygonArgs : ~Polygon_throws(d[1], d[2])} }

NoOp == [name |-> "ctor", p |-> point_t(Zero, Zero), k |-> Zero, thrown |-> FALSE]

\* std::cin: tokens consumed, failbit, eofbit
Stream(pos, fail, eof) == [pos |-> pos, fail |-> fail, eof |-> eof]

DrvIdle == mas2 = <<>> /\ outp = <<>> /\ pc = "idle" /\ input = <<>>
           /\ cin = Stream(0, FALSE, FALSE) /\ f = FALSE /\ rc = -1
PolyIdle == heap = <<>> /\ objs = <<>> /\ last = <<>> /\ ub = FALSE
ShapeIdle == shape = <<>> /\ prev = <<>> /\ op = NoOp /\ steps = 0

Init ==
  /\ shape \in Shapes
  /\ prev = shape
  /\ op = NoOp
  /\ steps = 0
  /\ DrvIdle /\ PolyIdle

MoveTo ==
  /\ steps < MaxOps
  /\ \E p \in Points :
       /\ shape' = moveTo(shape, p)
       /\ op' = [name |-> "moveTo", p |-> p, k |-> Zero, thrown |-> FALSE]
  /\ prev' = shape
  /\ steps' = steps + 1
  /\ UNCHANGED <<drvVars, polyVars>>

MoveBy ==
  /\ steps < MaxOps
  /\ \E d \in Deltas :
       /\ shape' = moveBy(shape, d.x, d.y)
       /\ op' = [name |-> "moveBy", p |-> d, k |-> Zero, thrown |-> FALSE]
  /\ prev' = shape
  /\ steps' = steps + 1
  /\ UNCHANGED <<drvVars, polyVars>>

Scale ==
  /\ steps < MaxOps
  /\ \E k \in Factors :
       LET r == scale(shape, k)
       IN  /\ shape' = r.s
           /\ op' = [name |-> "scale", p |-> point_t(Zero, Zero), k |-> k, thrown |-> r.thrown]
  /\ prev' = shape
  /\ steps' = steps + 1
  /\ UNCHANGED <<drvVars, polyVars>>

ScaleRelativePoint ==
  /\ steps < MaxOps
  /\ \E p \in Points, k \in Factors :
       LET r == scaleRelativePoint(shape, p, k)
       IN  /\ shape' = r.s
           /\ op' = [name |-> "scaleRelativePoint", p |-> p, k |-> k, thrown |-> r.thrown]
  /\ prev' = shape
  /\ steps' = steps + 1
  /\ UNCHANGED <<drvVars, polyVars>>

Next == MoveTo \/ MoveBy \/ Scale \/ ScaleRelativePoint

Spec == Init /\ [][Next]_vars

\* the position move(point_t) assigns: Rectangle a.pos, Rubber pos2 (the inner
\* circle's centre), Polygon pos (the centroid computed at construction)
RefPos(s) ==
  CASE s.kind = "Rectangle" -> s.a.pos
    [] s.kind = "Rubber"    -> s.pos2
    [] s.kind = "Polygon"   -> s.pos

PAdd(a, b) == point_t(RAdd(a.x, b.x), RAdd(a.y, b.y))
PSub(a, b) == point_t(RSub(a.x, b.x), RSub(a.y, b.y))
PMul(k, a) == point_t(RMul(k, a.x), RMul(k, a.y))

\* C1: after scaleRelativePoint(S, p, k) with k > 0 the frame rectangle is k
\* times as wide and as high, and its centre c has moved to p + k * (c - p).
C1_ScaleAboutPivot ==
  (op.name = "scaleRelativePoint" /\ ~op.thrown) =>
    LET before == getFrameRect(prev)
        after == getFrameRect(shape)
    IN  /\ after.width = RMul(op.k, before.width)
        /\ after.height = RMul(op.k, before.height)
        /\ after.pos = PAdd(op.p, PMul(op.k, PSub(before.pos, op.p)))

\* C2 as stated: after move(p) the centre of getFrameRect() equals p.
C2_FrameCentreIsTarget ==
  op.name = "moveTo" => getFrameRect(shape).pos = op.p

\* C2 amended: after move(p) the position move assigns (Rectangle a.pos, Rubber
\* pos2, Polygon pos) equals p, the frame rectangle keeps its width and height,
\* and its centre keeps the offset it had from that position; for a Rectangle
\* the offset is zero, so the frame centre is p.
C2_MoveToReference ==
  op.name = "moveTo" =>
    LET before == getFrameRect(prev)
        after == getFrameRect(shape)
    IN  /\ RefPos(shape) = op.p
        /\ after.width = before.width /\ after.height = before.height
        /\ PSub(after.pos, op.p) = PSub(before.pos, RefPos(prev))
        /\ (shape.kind = "Rectangle" => after.pos = op.p)
C2_Witness ==
  /\ op.name = "moveTo" /\ shape.kind = "Rubber" /\ RefPos(prev) # op.p
  /\ getFrameRect(shape).pos # op.p

\* C3: when S's own centre already equals p, scaleRelativePoint(S, p, k) with
\* k > 0 leaves S with the area and the frame rectangle that S.scale(k) gives.
C3_SameAsScale ==
  (op.name = "scaleRelativePoint" /\ ~op.thrown
     /\ (RefPos(prev) = op.p \/ getFrameRect(prev).pos = op.p)) =>
    /\ getArea(shape) = getArea(scale(prev, op.k).s)
    /\ getFrameRect(shape) = getFrameRect(scale(prev, op.k).s)

\* C4: scale(k) with k <= 0 throws and leaves every field of S as it was.
C4_FailedScaleKeepsState ==
  (op.name = "scale" /\ RLe(op.k, Zero)) => (op.thrown /\ shape = prev)
C4_Witness ==
  op.name = "scale" /\ RLe(op.k, Zero) /\ op.thrown /\ steps > 1 /\ shape.kind = "Polygon"

\* C5: for k > 0 the area after scale(k) is k * k times the area before.
C5_AreaScalesBySquare ==
  (op.name = "scale" /\ ~op.thrown) =>
    getArea(shape) = RMul(RMul(op.k, op.k), getArea(prev))
C5_Witness ==
  /\ op.name = "scale" /\ ~op.thrown /\ op.k = Q(1, 2) /\ shape.kind = "Rubber"
  /\ getArea(shape) # getArea(prev)

\* C10: every Rubber the operations reach has r1 > 0, r2 > 0, distinct centres
\* and distance(pos1, pos2) + r2 <= r1, and its area is not negative.
C10_RubberInvariant ==
  shape.kind = "Rubber" =>
    LET ex == RSub(shape.pos1.x, shape.pos2.x)
        ey == RSub(shape.pos1.y, shape.pos2.y)
    IN  /\ RLt(Zero, shape.r1) /\ RLt(Zero, shape.r2)
        /\ shape.pos1 # shape.pos2
        /\ ~SqrtPlusGt(RAdd(RMul(ex, ex), RMul(ey, ey)), shape.r2, shape.r1)
        /\ RLe(Zero, getArea(shape))
C10_Witness ==
  /\ shape.kind = "Rubber" /\ steps > 1 /\ op.name = "scaleRelativePoint" /\ ~op.thrown
  /\ op.k = Q(1, 2) /\ shape.r1 # prev.r1

(***************************************************************************)
(* totalPrint: what it writes to outp, as a record                         *)
(***************************************************************************)
\* the loop of lines 265-280 from shape i on; e = <<left_x, right_x, down_y, up_y>>,
\* total_rec is its last assignment (the first shape's frame when the loop is empty)
RECURSIVE TotalFrame_NoDown(_, _, _, _)
TotalFrame_NoDown(frames, i, e, total_rec) ==
  IF i > Len(frames) THEN total_rec
  ELSE LET a == frames[i]
           left_xi == RSub(a.pos.x, RDiv(a.width, Two))
           right_xi == RAdd(a.pos.x, RDiv(a.width, Two))
           up_yi == RAdd(a.pos.y, RDiv(a.height, Two))
           left_x == IF RLt(left_xi, e[1]) THEN left_xi ELSE e[1]
           right_x == IF RLt(e[2], right_xi) THEN right_xi ELSE e[2]
           down_y == e[3]
           up_y == IF RLt(e[4], up_yi) THEN up_yi ELSE e[4]
       IN  TotalFrame_NoDown(frames, i + 1, <<left_x, right_x, down_y, up_y>>,
             rectangle_t(RSub(right_x, left_x), RSub(up_y, down_y),
                         point_t(RDiv(RAdd(left_x, right_x), Two), RDiv(RAdd(up_y, down_y), Two))))
RECURSIVE TotalFrame(_, _, _, _)
TotalFrame(frames, i, e, total_rec) ==
  IF i > Len(frames) THEN total_rec
  ELSE LET a == frames[i]
           left_xi == RSub(a.pos.x, RDiv(a.width, Two))
           right_xi == RAdd(a.pos.x, RDiv(a.width, Two))
           down_yi == RSub(a.pos.y, RDiv(a.height, Two))
           up_yi == RAdd(a.pos.y, RDiv(a.height, Two))
           left_x == IF RLt(left_xi, e[1]) THEN left_xi ELSE e[1]
           right_x == IF RLt(e[2], right_xi) THEN right_xi ELSE e[2]
           down_y == IF RLt(down_yi, e[3]) THEN down_yi ELSE e[3]
           up_y == IF RLt(e[4], up_yi) THEN up_yi ELSE e[4]
       IN  TotalFrame(frames, i + 1, <<left_x, right_x, down_y, up_y>>,
             rectangle_t(RSub(right_x, left_x), RSub(up_y, down_y),
                         point_t(RDiv(RAdd(left_x, right_x), Two), RDiv(RAdd(up_y, down_y), Two))))

\* lines 259-263 and the loop: the extents start at the first shape's frame
TotalRect(frames) ==
  LET first == frames[1]
      e0 == <<RSub(first.pos.x, RDiv(first.width, Two)), RAdd(first.pos.x, RDiv(first.width, Two)),
              RSub(first.pos.y, RDiv(first.height, Two)), RAdd(first.pos.y, RDiv(first.height, Two))>>
  IN  TotalFrame(frames, 1, e0, first)

\* count >= 1: mas2[0] is read before the loop
totalPrint(count, shapes) ==
  LET areas == [i \in 1..count |-> getArea(shapes[i])]
      frames == [i \in 1..count |-> getFrameRect(shapes[i])]
  IN  [areas |-> areas,
       total_area |-> RSum(areas, 1, count),
       frames |-> frames,
       total_rec |-> TotalRect(frames)]

(***************************************************************************)
(* SpecTotal: totalPrint applied to a collection of shapes                 *)
(***************************************************************************)
MaxCount == 3

\* a, b and c of main
DriverShapes ==
  <<Rectangle(R(1), R(5), point_t(R(2), R(3))),
    Rubber(Q(22, 5), point_t(R(1), R(1)), Q(11, 10), point_t(Q(11, 10), Q(11, 10))),
    Polygon(mas, 5)>>

\* shapes as constructed and as the operations leave them
TotalShapes ==
  {DriverShapes[i] : i \in 1..3}
  \cup {scaleRelativePoint(DriverShapes[i], point_t(R(-1), R(6)), Q(1, 2)).s : i \in 1..3}

InitTotal ==
  /\ mas2 \in UNION {[1..n -> TotalShapes] : n \in 1..MaxCount}
  /\ outp = <<>>
  /\ pc = "call"
  /\ input = <<>> /\ cin = Stream(0, FALSE, FALSE) /\ f = FALSE /\ rc = -1
  /\ ShapeIdle /\ PolyIdle

TotalPrint ==
  /\ pc = "call"
  /\ outp' = totalPrint(Len(mas2), mas2)
  /\ pc' = "printed"
  /\ UNCHANGED <<mas2, input, cin, f, rc, shapeVars, polyVars>>

NextTotal == TotalPrint

SpecTotal == InitTotal /\ [][NextTotal]_vars

RLeast(S) == CHOOSE v \in S : \A w \in S : RLe(v, w)
RGreatest(S) == CHOOSE v \in S : \A w \in S : RLe(w, v)

\* the least axis-aligned box around the frame rectangles of a collection
BoundingBox(shapes) ==
  LET fr == {getFrameRect(shapes[i]) : i \in 1..Len(shapes)}
      left == RLeast({RSub(a.pos.x, RDiv(a.width, Two)) : a \in fr})
      right == RGreatest({RAdd(a.pos.x, RDiv(a.width, Two)) : a \in fr})
      down == RLeast({RSub(a.pos.y, RDiv(a.height, Two)) : a \in fr})
      up == RGreatest({RAdd(a.pos.y, RDiv(a.height, Two)) : a \in fr})
  IN  rectangle_t(RSub(right, left), RSub(up, down),
                  point_t(RDiv(RAdd(left, right), Two), RDiv(RAdd(up, down), Two)))

\* C6: the total frame rectangle totalPrint reports for a non-empty collection
\* is the least axis-aligned box around all the shapes' frame rectangles, and
\* every reordering of the collection gives the same one.
C6_TotalFrameIsUnion ==
  pc = "printed" =>
    /\ outp.total_rec = BoundingBox(mas2)
    /\ \A q \in Permutations(1..Len(mas2)) :
         TotalRect([i \in 1..Len(mas2) |-> getFrameRect(mas2[q[i]])]) = outp.total_rec
C6_Witness ==
  /\ pc = "printed" /\ Len(mas2) = 3
  /\ mas2[1].kind = "Rubber" /\ mas2[2].kind = "Polygon" /\ mas2[3].kind = "Rectangle"
  /\ outp.total_rec # outp.frames[1] /\ outp.total_rec # outp.frames[2]
  /\ outp.total_rec # outp.frames[3]

(***************************************************************************)
(* SpecMain: main, its input a sequence of whitespace-separated tokens     *)
(***************************************************************************)
MaxInput == 6

\* a token is a number, text that is no number ("abc"), or a lone sign "-",
\* which operator>> takes for the start of a number: when the stream ends right
\* after it the extraction fails at end of input
Num(v) == [t |-> "num", v |-> v]
Bad == [t |-> "bad", v |-> Zero]
Sign == [t |-> "sign", v |-> Zero]
Tokens == {Num(R(0)), Num(R(2)), Bad, Sign}

\* std::cin >> point_a.x >> point_a.y >> k from position pos: the stream
\* afterwards; an extraction after a failed one does nothing
RECURSIVE Extract(_, _, _)
Extract(in, pos, todo) ==
  IF todo = 0 THEN Stream(pos, FALSE, FALSE)
  ELSE IF pos + 1 > Len(in) THEN Stream(pos, TRUE, TRUE)
  ELSE IF in[pos + 1].t = "num" THEN Extract(in, pos + 1, todo - 1)
  ELSE IF in[pos + 1].t = "sign" /\ pos + 1 = Len(in) THEN Stream(pos + 1, TRUE, TRUE)
  ELSE Stream(pos, TRUE, FALSE)

InitMain ==
  /\ input \in UNION {[1..n -> Tokens] : n \in 0..MaxInput}
  /\ mas2 = DriverShapes
  /\ outp = <<>>
  /\ pc = "start"
  /\ cin = Stream(0, FALSE, FALSE)
  /\ f = FALSE
  /\ rc = -1
  /\ ShapeIdle /\ PolyIdle

\* lines 300-307
PrintBefore ==
  /\ pc = "start"
  /\ outp' = totalPrint(3, mas2)
  /\ pc' = "while"
  /\ UNCHANGED <<mas2, input, cin, f, rc, shapeVars, polyVars>>

\* the condition of the while of line 308
ReadTriple ==
  /\ pc = "while"
  /\ cin' = Extract(input, cin.pos, 3)
  /\ pc' = IF cin'.fail THEN "after" ELSE "body"
  /\ UNCHANGED <<mas2, outp, input, f, rc, shapeVars, polyVars>>

\* lines 310-319: the stream is good inside the loop, so only k decides
BadZoom ==
  /\ pc = "body" /\ ~cin.fail
  /\ RLe(input[cin.pos].v, Zero)
  /\ rc' = 1
  /\ pc' = "done"
  /\ UNCHANGED <<mas2, outp, input, cin, f, shapeVars, polyVars>>

\* lines 321-332
Process ==
  /\ pc = "body" /\ ~cin.fail
  /\ ~RLe(input[cin.pos].v, Zero)
  /\ f' = TRUE
  /\ LET point_a == point_t(input[cin.pos - 2].v, input[cin.pos - 1].v)
         k == input[cin.pos].v
     IN  mas2' = [i \in 1..3 |-> scaleRelativePoint(mas2[i], point_a, k).s]
  /\ outp' = totalPrint(3, mas2')
  /\ pc' = "while"
  /\ UNCHANGED <<input, cin, rc, shapeVars, polyVars>>

\* lines 334-338
ExitBadInput ==
  /\ pc = "after"
  /\ cin.fail /\ ~cin.eof
  /\ rc' = 1
  /\ pc' = "done"
  /\ UNCHANGED <<mas2, outp, input, cin, f, shapeVars, polyVars>>

\* lines 339-343
ExitNoInput ==
  /\ pc = "after"
  /\ ~(cin.fail /\ ~cin.eof)
  /\ cin.eof /\ ~f
  /\ rc' = 1
  /\ pc' = "done"
  /\ UNCHANGED <<mas2, outp, input, cin, f, shapeVars, polyVars>>

\* line 344: main ends without a return statement
ExitOk ==
  /\ pc = "after"
  /\ ~(cin.fail /\ ~cin.eof)
  /\ ~(cin.eof /\ ~f)
  /\ rc' = 0
  /\ pc' = "done"
  /\ UNCHANGED <<mas2, outp, input, cin, f, shapeVars, polyVars>>

NextMain ==
  PrintBefore \/ ReadTriple \/ BadZoom \/ Process \/ ExitBadInput \/ ExitNoInput \/ ExitOk

SpecMain == InitMain /\ [][NextMain]_vars

\* C7 as stated: the driver's Polygon has area 6.5.
C7_AreaIsSixAndAHalf ==
  /\ pc = "start" => getArea(mas2[3]) = Q(13, 2)
  /\ (pc = "while" /\ cin.pos = 0) => outp.areas[3] = Q(13, 2)

\* C7 amended: the Polygon built from (0,0),(1,0),(2,2),(2,3),(1,4) has area
\* 4.5, half the absolute shoelace sum 0 + 2 + 2 + 5 + 0 = 9, and that is what
\* the first totalPrint reports for it.
C7_AreaIsFourAndAHalf ==
  /\ pc = "start" =>
       /\ mas2[3].mtx = mas
       /\ ShoelaceSum(mas2[3].mtx, 5) = R(9)
       /\ getArea(mas2[3]) = Q(9, 2)
  /\ (pc = "while" /\ cin.pos = 0) => outp.areas[3] = Q(9, 2)
C7_Witness ==
  pc = "while" /\ cin.pos = 0 /\ outp.areas[3] = Q(9, 2) /\ mas2[3].mtx = mas

\* a non-empty sequence of complete numeric triples, each with k > 0
GoodInput(in) ==
  /\ Len(in) > 0
  /\ Len(in) % 3 = 0
  /\ \A i \in 1..Len(in) : in[i].t = "num"
  /\ \A i \in 1..Len(in) : i % 3 = 0 => RLt(Zero, in[i].v)

\* C8: the driver ends with exit code 0 exactly when the input is a non-empty
\* sequence of complete triples all with k > 0, and with 1 in every other case.
C8_ExitCode ==
  pc = "done" => (rc \in {0, 1} /\ (rc = 0 <=> GoodInput(input)))

(***************************************************************************)
(* SpecPoly: the special member functions of Polygon over a heap of        *)
(* point_t[] buffers.  mtx is an index into heap, 0 for nullptr; frees     *)
(* counts the delete[] calls a buffer has received.                        *)
(***************************************************************************)
MaxAlloc == 3

Slots == {"c", "d"}
PolyArgs == {d \in PolygonArgs : d[2] = 5 \/ (d[2] = 3 /\ d[1][2].x = R(2)) \/ d[2] = 2}

NoObject == [alive |-> FALSE, mtx |-> 0, n |-> 0, pos |-> point_t(Zero, Zero)]
NoLast == [name |-> "none", dst |-> "c", src |-> "c", before |-> [o \in Slots |-> NoObject]]

\* new point_t[n] filled with data
New(h, data) == Append(h, [data |-> data, frees |-> 0])
\* delete[] p: nothing for nullptr
Delete(h, p) == IF p = 0 THEN h ELSE [h EXCEPT ![p].frees = h[p].frees + 1]
\* a second delete[] of the same buffer is undefined
DoubleFree(h, p) == p # 0 /\ h[p].frees > 0
\* reading other.mtx[i] for i < n through a null mtx is undefined
NullRead(src) == src.mtx = 0 /\ src.n > 0

InitPoly ==
  /\ heap = <<>>
  /\ objs = [o \in Slots |-> NoObject]
  /\ last = NoLast
  /\ ub = FALSE
  /\ ShapeIdle /\ DrvIdle

\* Polygon(const point_t*, size_t), lines 161-173
PolyConstruct ==
  /\ ~ub /\ Len(heap) < MaxAlloc
  /\ \E o \in Slots, c \in PolyArgs :
       /\ ~objs[o].alive
       /\ ~Polygon_throws(c[1], c[2])
       /\ heap' = New(heap, c[1])
       /\ objs' = [objs EXCEPT ![o] = [alive |-> TRUE, mtx |-> Len(heap) + 1, n |-> c[2],
                                       pos |-> polygonCentroid(c[1], c[2])]]
       /\ last' = [name |-> "ctor", dst |-> o, src |-> o, before |-> objs]
  /\ UNCHANGED <<ub, shapeVars, drvVars>>

\* Polygon(const Polygon&), lines 174-182
PolyCopyConstruct ==
  /\ ~ub /\ Len(heap) < MaxAlloc
  /\ \E o \in Slots, from \in Slots :
       /\ o # from /\ ~objs[o].alive /\ objs[from].alive
       /\ heap' = New(heap, IF objs[from].mtx = 0 THEN <<>> ELSE heap[objs[from].mtx].data)
       /\ objs' = [objs EXCEPT ![o] = [alive |-> TRUE, mtx |-> Len(heap) + 1,
                                       n |-> objs[from].n, pos |-> objs[from].pos]]
       /\ ub' = NullRead(objs[from])
       /\ last' = [name |-> "copyCtor", dst |-> o, src |-> from, before |-> objs]
  /\ UNCHANGED <<shapeVars, drvVars>>

\* Polygon(Polygon&&), lines 183-188
PolyMoveConstruct ==
  /\ ~ub
  /\ \E o \in Slots, from \in Slots :
       /\ o # from /\ ~objs[o].alive /\ objs[from].alive
       /\ objs' = [objs EXCEPT ![o] = [alive |-> TRUE, mtx |-> objs[from].mtx,
                                       n |-> objs[from].n, pos |-> objs[from].pos],
                               ![from].mtx = 0]
       /\ last' = [name |-> "moveCtor", dst |-> o, src |-> from, before |-> objs]
  /\ UNCHANGED <<heap, ub, shapeVars, drvVars>>

\* operator=(const Polygon&), lines 189-203
PolyCopyAssign ==
  /\ ~ub /\ Len(heap) < MaxAlloc
  /\ \E o \in Slots, from \in Slots :
       /\ objs[o].alive /\ objs[from].alive
       /\ IF o = from
          THEN UNCHANGED <<heap, objs, ub>>
          ELSE /\ heap' = New(Delete(heap, objs[o].mtx),
                              IF objs[from].mtx = 0 THEN <<>> ELSE heap[objs[from].mtx].data)
               /\ objs' = [objs EXCEPT ![o].mtx = Len(heap) + 1,
                                       ![o].n = objs[from].n, ![o].pos = objs[from].pos]
               /\ ub' = (DoubleFree(heap, objs[o].mtx) \/ NullRead(objs[from]))
       /\ last' = [name |-> "copyAssign", dst |-> o, src |-> from, before |-> objs]
  /\ UNCHANGED <<shapeVars, drvVars>>

\* operator=(Polygon&&), lines 204-215
PolyMoveAssign ==
  /\ ~ub
  /\ \E o \in Slots, from \in Slots :
       /\ objs[o].alive /\ objs[from].alive
       /\ IF o = from
          THEN UNCHANGED <<heap, objs, ub>>
          ELSE /\ heap' = Delete(heap, objs[o].mtx)
               /\ objs' = [objs EXCEPT ![o].mtx = objs[from].mtx,
                                       ![from].mtx = 0,
                                       ![o].n = objs[from].n, ![o].pos = objs[from].pos]
               /\ ub' = DoubleFree(heap, objs[o].mtx)
       /\ last' = [name |-> "moveAssign", dst |-> o, src |-> from, before |-> objs]
  /\ UNCHANGED <<shapeVars, drvVars>>

\* ~Polygon(), lines 216-219
PolyDestroy ==
  /\ ~ub
  /\ \E o \in Slots :
       /\ objs[o].alive
       /\ heap' = Delete(heap, objs[o].mtx)
       /\ objs' = [objs EXCEPT ![o] = NoObject]
       /\ ub' = DoubleFree(heap, objs[o].mtx)
       /\ last' = [name |-> "dtor", dst |-> o, src |-> o, before |-> objs]
  /\ UNCHANGED <<shapeVars, drvVars>>

NextPoly ==
  \/ PolyConstruct \/ PolyCopyConstruct \/ PolyMoveConstruct
  \/ PolyCopyAssign \/ PolyMoveAssign \/ PolyDestroy

SpecPoly == InitPoly /\ [][NextPoly]_vars

\* C9: after a move (constructor or assignment) the source holds no buffer and
\* reports no vertices, the destination holds the source's former buffer and
\* count, no buffer is owned by two Polygons and none is released twice.
C9_MoveLeavesSourceEmpty ==
  (last.name \in {"moveCtor", "moveAssign"} /\ last.dst # last.src) =>
    /\ objs[last.src].mtx = 0
    /\ objs[last.src].n = 0
    /\ objs[last.dst].mtx = last.before[last.src].mtx
    /\ objs[last.dst].n = last.before[last.src].n
    /\ \A o1, o2 \in Slots :
         (o1 # o2 /\ objs[o1].alive /\ objs[o2].alive /\ objs[o1].mtx # 0)
           => objs[o1].mtx # objs[o2].mtx
    /\ \A b \in 1..Len(heap) : heap[b].frees <= 1

====
